---- MODULE Spec2Model ----
(***************************************************************************)
(* A model of the lua-bundler dependency engine:                           *)
(*   internal/bundler (downloadHTTP, isLocalModule, resolveModulePath,     *)
(*   processFile, NewBundler, SetObfuscationLevel, Bundle) and the         *)
(*   command in cmd/root.go that drives it.                                *)
(*                                                                         *)
(* Strings are modelled as sequences of atoms.  An atom is one of the      *)
(* special characters "." "/" ":" "'" or a maximal run of word characters  *)
(* (a name such as "a", "game", "lua").  Every string function of the      *)
(* code (Contains, HasPrefix, HasSuffix, Split, Trim, ReplaceAll,          *)
(* filepath.Join/Dir/Clean) is computed on these sequences.                *)
(*                                                                         *)
(* A source line is a sequence of tokens; the three regular expressions    *)
(* of processFile are matched on the token sequence (white space, which    *)
(* every expression allows between tokens with \s*, is left out).          *)
(***************************************************************************)
EXTENDS Integers, Sequences, FiniteSets, TLC

(***************************************************************************)
(* Generic sequence helpers                                                *)
(***************************************************************************)
Last(s) == s[Len(s)]

Front(s) == SubSeq(s, 1, Len(s) - 1)

RECURSIVE Flatten(_)
Flatten(ss) == IF ss = <<>> THEN <<>> ELSE Head(ss) \o Flatten(Tail(ss))

Range(s) == {s[i] : i \in 1..Len(s)}

(***************************************************************************)
(* strings package, on atom sequences                                      *)
(***************************************************************************)
\* strings.Contains(s, sub)
Contains(s, sub) ==
  \E i \in 1..(Len(s) - Len(sub) + 1) : SubSeq(s, i, i + Len(sub) - 1) = sub

\* strings.HasPrefix(s, p)
HasPrefix(s, p) == Len(s) >= Len(p) /\ SubSeq(s, 1, Len(p)) = p

\* strings.HasSuffix(s, p)
HasSuffix(s, p) == Len(s) >= Len(p) /\ SubSeq(s, Len(s) - Len(p) + 1, Len(s)) = p

\* strings.TrimPrefix(s, p)
TrimPrefix(s, p) == IF HasPrefix(s, p) THEN SubSeq(s, Len(p) + 1, Len(s)) ELSE s

\* strings.Split(s, sep) for a one-atom separator: the pieces between separators
RECURSIVE SplitAcc(_, _, _)
SplitAcc(s, sep, cur) ==
  IF s = <<>> THEN <<cur>>
  ELSE IF Head(s) = sep THEN <<cur>> \o SplitAcc(Tail(s), sep, <<>>)
  ELSE SplitAcc(Tail(s), sep, Append(cur, Head(s)))

Split(s, sep) == SplitAcc(s, sep, <<>>)

\* nothing is replaced
ReplaceNone(s, old, new) == s

\* strings.ReplaceAll(s, old, new) for one-atom old and new
ReplaceAll(s, old, new) == [i \in 1..Len(s) |-> IF s[i] = old THEN new ELSE s[i]]

QuoteAtoms == {"'", "\""}

\* strings.Trim(s, "'\""): drop leading and trailing quote characters
RECURSIVE TrimLeft(_)
TrimLeft(s) == IF s # <<>> /\ Head(s) \in QuoteAtoms THEN TrimLeft(Tail(s)) ELSE s

RECURSIVE TrimRight(_)
TrimRight(s) == IF s # <<>> /\ Last(s) \in QuoteAtoms THEN TrimRight(Front(s)) ELSE s

\* the quotes are left in place
TrimNothing(s) == s

Trim(s) == TrimRight(TrimLeft(s))

(***************************************************************************)
(* path/filepath, on atom sequences                                        *)
(***************************************************************************)
Slash == "/"

Dot == "."

LuaExt == <<".", "lua">>

\* join path segments with "/"
RECURSIVE JoinSegs(_)
JoinSegs(segs) ==
  IF segs = <<>> THEN <<>>
  ELSE IF Len(segs) = 1 THEN Head(segs)
  ELSE Head(segs) \o <<Slash>> \o JoinSegs(Tail(segs))

\* the segment stack of filepath.Clean: "" and "." are dropped, ".." pops a
\* segment, is dropped at the root and is kept in front of a relative path
RECURSIVE CleanSegs(_, _, _)
CleanSegs(segs, out, rooted) ==
  IF segs = <<>> THEN out
  ELSE LET s == Head(segs)
           rest == Tail(segs)
       IN IF s = <<>> \/ s = <<Dot>> THEN CleanSegs(rest, out, rooted)
          ELSE IF s = <<Dot, Dot>>
               THEN IF out # <<>> /\ Last(out) # <<Dot, Dot>>
                    THEN CleanSegs(rest, Front(out), rooted)
                    ELSE IF rooted THEN CleanSegs(rest, out, rooted)
                    ELSE CleanSegs(rest, Append(out, s), rooted)
          ELSE CleanSegs(rest, Append(out, s), rooted)

\* filepath.Clean(p)
Clean(p) ==
  IF p = <<>> THEN <<Dot>>
  ELSE LET rooted == Head(p) = Slash
           body == JoinSegs(CleanSegs(Split(p, Slash), <<>>, rooted))
       IN IF rooted THEN <<Slash>> \o body
          ELSE IF body = <<>> THEN <<Dot>> ELSE body

\* filepath.Join(a, b): empty elements are ignored, the result is cleaned
Join(a, b) ==
  IF a = <<>> /\ b = <<>> THEN <<>>
  ELSE IF a = <<>> THEN Clean(b)
  ELSE IF b = <<>> THEN Clean(a)
  ELSE Clean(a \o <<Slash>> \o b)

\* index of the last "/" of p, 0 if there is none
LastSlash(p) ==
  LET I == {i \in 1..Len(p) : p[i] = Slash}
  IN IF I = {} THEN 0 ELSE CHOOSE i \in I : \A j \in I : j <= i

\* filepath.Dir(p): all but the last element of p, cleaned
Dir(p) == Clean(SubSeq(p, 1, LastSlash(p)))

(***************************************************************************)
(* PathResolver: isLocalModule and resolveModulePath                       *)
(***************************************************************************)
externalPrefixes ==
  {"game", "workspace", "ReplicatedStorage", "ServerStorage", "StarterGui",
   "StarterPack", "StarterPlayer", "Lighting", "SoundService", "TweenService",
   "HttpService", "RunService", "UserInputService", "Players", "Teams",
   "Debris", "CollectionService"}

\* strings.Split(modulePath, ".")[0]
firstPart(modulePath) == Split(modulePath, Dot)[1]

\* the last Local condition, no dot at all, is left out
isLocalModuleNoBare(modulePath) ==
  IF Contains(modulePath, <<":", ":">>) THEN FALSE
  ELSE IF \E prefix \in externalPrefixes : firstPart(modulePath) = <<prefix>> THEN FALSE
  ELSE \/ HasPrefix(modulePath, <<Dot>>)
       \/ HasPrefix(modulePath, <<Slash>>)
       \/ Contains(modulePath, <<Slash>>)
       \/ HasSuffix(modulePath, LuaExt)
       \/ (Contains(modulePath, <<Dot>>) /\ ~Contains(modulePath, <<Slash>>))

\* the extension is looked at before the external checks
isLocalModuleExtFirst(modulePath) ==
  IF HasSuffix(modulePath, LuaExt) THEN TRUE
  ELSE IF Contains(modulePath, <<":", ":">>) THEN FALSE
  ELSE ~\E prefix \in externalPrefixes : firstPart(modulePath) = <<prefix>>

isLocalModule(modulePath) ==
  IF Contains(modulePath, <<":", ":">>) THEN FALSE
  ELSE IF \E prefix \in externalPrefixes : firstPart(modulePath) = <<prefix>> THEN FALSE
  ELSE \/ HasPrefix(modulePath, <<Dot>>)
       \/ HasPrefix(modulePath, <<Slash>>)
       \/ Contains(modulePath, <<Slash>>)
       \/ HasSuffix(modulePath, LuaExt)
       \/ (Contains(modulePath, <<Dot>>) /\ ~Contains(modulePath, <<Slash>>))
       \/ ~Contains(modulePath, <<Dot>>)

\* if !strings.HasSuffix(resolvedPath, ".lua") { resolvedPath += ".lua" }
withLuaExt(resolvedPath) ==
  IF HasSuffix(resolvedPath, LuaExt) THEN resolvedPath ELSE resolvedPath \o LuaExt

resolveModulePath(baseDir, currentFile, rawModulePath) ==
  LET modulePath == Trim(rawModulePath)
  IN IF HasPrefix(modulePath, <<Slash>>)
     THEN withLuaExt(Join(baseDir, TrimPrefix(modulePath, <<Slash>>)))
     ELSE IF /\ Contains(modulePath, <<Dot>>)
             /\ ~Contains(modulePath, <<Slash>>)
             /\ ~Contains(modulePath, <<":", ":">>)
          THEN withLuaExt(Join(baseDir, ReplaceAll(modulePath, Dot, Slash)))
          ELSE Clean(withLuaExt(Join(Dir(currentFile), modulePath)))

(***************************************************************************)
(* Source lines as token sequences.  A token is [t |-> kind, k |-> text]:  *)
(*   "w"  a word (\w+), k its name, a dotted chain allowed                 *)
(*   "rq" the word require          "ls" the word loadstring               *)
(*   "hg" the text game:HttpGet     "lp" "("     "rp" ")"                  *)
(*   "q"  a quoted literal, k the text between the quotes                  *)
(*   "qc" a lone quote character    "c"  any other character (",")         *)
(***************************************************************************)
Tok(kind) == [t |-> kind, k |-> <<>>]

Word(name) == [t |-> "w", k |-> name]

Quoted(text) == [t |-> "q", k |-> text]

\* the token ends with word characters directly before what follows it
\* (game:HttpGet ends with the word HttpGet)
IsWord(tok) == tok.t \in {"w", "rq", "ls", "hg"}

\* the token matches [a-zA-Z_][a-zA-Z0-9_.]* as a whole
IsIdentifier(tok) == tok.t \in {"w", "rq", "ls"}

IdentifierText(tok) ==
  IF tok.t = "rq" THEN <<"require">>
  ELSE IF tok.t = "ls" THEN <<"loadstring">>
  ELSE tok.k

KindsAt(line, i, kinds) ==
  /\ i + Len(kinds) - 1 <= Len(line)
  /\ \A j \in 1..Len(kinds) : line[i + j - 1].t = kinds[j]

\* requireRegex: require\s*\(\s*(?:['"]([^'"]+)['"]|([a-zA-Z_][a-zA-Z0-9_.]*))\s*\)
requireAt(line, i) ==
  /\ i + 3 <= Len(line)
  /\ line[i].t = "rq"
  /\ line[i + 1].t = "lp"
  /\ \/ line[i + 2].t = "q" /\ line[i + 2].k # <<>>
     \/ IsIdentifier(line[i + 2])
  /\ line[i + 3].t = "rp"

\* httpGetRegex: loadstring\s*\(\s*game:HttpGet\s*\(\s*['"]([^'"]+)['"]\s*\)\s*\)\s*\(\s*\)
httpGetAt(line, i) ==
  /\ KindsAt(line, i, <<"ls", "lp", "hg", "lp", "q", "rp", "rp", "lp", "rp">>)
  /\ line[i + 4].k # <<>>

\* funcCallHttpGetRegex: \w+\s*\([^)]*loadstring\s*\(\s*game:HttpGet
funcCallHttpGetAt(line, i) ==
  /\ i + 1 <= Len(line)
  /\ IsWord(line[i])
  /\ line[i + 1].t = "lp"
  /\ \E j \in (i + 2)..Len(line) :
       /\ \A m \in (i + 2)..(j - 1) : line[m].t # "rp"
       /\ KindsAt(line, j, <<"ls", "lp", "hg">>)

\* Regexp.MatchString / FindStringSubmatch: of the positions I where the
\* expression matches, the leftmost, 0 if none
FirstMatch(I) == IF I = {} THEN 0 ELSE CHOOSE i \in I : \A j \in I : i <= j

funcCallHttpGetMatch(line) ==
  FirstMatch({i \in 1..Len(line) : funcCallHttpGetAt(line, i)}) # 0

\* matches[1] of httpGetRegex.FindStringSubmatch(line), <<>> if no match
httpGetUrl(line) ==
  LET i == FirstMatch({j \in 1..Len(line) : httpGetAt(line, j)})
  IN IF i = 0 THEN <<>> ELSE line[i + 4].k

\* matches[1], or matches[2] if that is empty, of requireRegex.FindStringSubmatch
requireModulePath(line) ==
  LET i == FirstMatch({j \in 1..Len(line) : requireAt(line, j)})
  IN IF i = 0 THEN <<>>
     ELSE IF line[i + 2].t = "q" THEN line[i + 2].k ELSE IdentifierText(line[i + 2])

(***************************************************************************)
(* Texts, errors, the history of external calls                            *)
(***************************************************************************)
\* a text: its lines (strings.Split(content, "\n")), each given by its name in
\* the table Tokens, and the Obfuscate calls it went through, outermost last
Text(lines) == [lines |-> lines, obf |-> <<>>]

\* the empty string returned next to an error
NoText == [lines |-> <<>>, obf |-> <<>>]

NoErr == [msg |-> "nil", subject |-> <<>>, cause |-> "nil"]

\* fmt.Errorf("<msg> <subject>: <cause>")
Errorf(msg, subject, cause) == [msg |-> msg, subject |-> subject, cause |-> cause]

\* one call recorded in the history: the operation, the literal key it is
\* made for, the path or URL it is made on, whether it succeeded, how it ended
\* and the text it returned or was given
Ev(op, key, path, ok, res, text) ==
  [op |-> op, key |-> key, path |-> path, ok |-> ok, res |-> res, text |-> text]

\* a successful call that carries no text
Did(op) == Ev(op, <<>>, <<>>, TRUE, "", NoText)

EmptyMap == [k \in {} |-> NoText]

\* the map is left as it is
MapKeep(m, k, v) == m

\* m[k] = v of a Go map
MapSet(m, k, v) == [x \in DOMAIN m \cup {k} |-> IF x = k THEN v ELSE m[x]]

\* obfuscator.Obfuscate of an obfuscator built for a level: the text goes
\* through one more pass, its require and fetch calls are kept verbatim
Obfuscate(obfuscator, text) == [text EXCEPT !.obf = Append(@, obfuscator)]

(***************************************************************************)
(* The inputs of a run                                                     *)
(***************************************************************************)
MaxLines == 2

\* processFile recursion is not bounded by the code; the model stops starting
\* new activations at this depth
MaxDepth == 8

StatusOK == 200

RefA == <<"a">>

RefB == <<"b">>

RefMain == <<"main">>

RefSlashA == <<"/", "a">>

RefGame == <<"game", ".", "Workspace">>

Url1 == <<"http", ":", "/", "/", "h", "/", "u1">>

Url2 == <<"http", ":", "/", "/", "h", "/", "u2">>

EntryFile == <<"/", "base", "/", "main", ".", "lua">>

PathA == <<"/", "base", "/", "a", ".", "lua">>

PathB == <<"/", "base", "/", "b", ".", "lua">>

\* require("<ref>")
RequireCall(ref) == <<Tok("rq"), Tok("lp"), Quoted(ref), Tok("rp")>>

\* loadstring(game:HttpGet("<url>"))()
HttpGetCall(url) ==
  <<Tok("ls"), Tok("lp"), Tok("hg"), Tok("lp"), Quoted(url), Tok("rp"), Tok("rp"),
    Tok("lp"), Tok("rp")>>

\* queue_on_teleport("loadstring(game:HttpGet('<url>'))()") require("<ref>")
QuotedFetchLine(url, ref) ==
  <<Word(<<"queue_on_teleport">>), Tok("lp"), Tok("qc")>> \o HttpGetCall(url)
    \o <<Tok("qc"), Tok("rp")>> \o RequireCall(ref)

\* queue_on_teleport(tostring(n), "loadstring(game:HttpGet('<url>'))()")
NestedFetchLine(url) ==
  <<Word(<<"queue_on_teleport">>), Tok("lp"), Word(<<"tostring">>), Tok("lp"),
    Word(<<"n">>), Tok("rp"), Tok("c"), Tok("qc")>>
    \o HttpGetCall(url) \o <<Tok("qc"), Tok("rp")>>

\* the lines the files of a run are made of, by name
Tokens(line) ==
  CASE line = "" -> <<>>
    [] line = "require a" -> RequireCall(RefA)
    [] line = "require b" -> RequireCall(RefB)
    [] line = "require main" -> RequireCall(RefMain)
    [] line = "require /a" -> RequireCall(RefSlashA)
    [] line = "require game.Workspace" -> RequireCall(RefGame)
    [] line = "fetch u1" -> HttpGetCall(Url1)
    [] line = "fetch u1 require a" -> HttpGetCall(Url1) \o RequireCall(RefA)
    [] line = "require a require b" -> RequireCall(RefA) \o RequireCall(RefB)
    [] line = "quoted fetch u1 require a" -> QuotedFetchLine(Url1, RefA)
    [] line = "nested fetch u1" -> NestedFetchLine(Url1)

LineNames ==
  { "", "require a", "require b", "require main", "require /a", "require game.Workspace",
    "fetch u1", "fetch u1 require a", "require a require b", "quoted fetch u1 require a",
    "nested fetch u1" }

\* what the three expressions of processFile find on a line: whether the guard
\* matches, the url of the fetch rule and the literal of the require rule
\* (<<>> where the rule does not match)
scanLine(line) ==
  [skip |-> funcCallHttpGetMatch(line), url |-> httpGetUrl(line),
   modulePath |-> requireModulePath(line)]

\* scanLine of every line of the table
Scanned == [name \in LineNames |-> scanLine(Tokens(name))]

\* the literals the require rule finds on the lines of the table
ModulePaths == {Scanned[name].modulePath : name \in LineNames}

\* the literals among them that are not empty and that isLocalModule accepts
LocalModulePaths == {m \in ModulePaths : m # <<>> /\ isLocalModule(m)}

EmptyLine == ""

EntryLines ==
  { "require a", "fetch u1", "fetch u1 require a", "require a require b",
    "quoted fetch u1 require a", "nested fetch u1" }

\* the sequences over S of length 1..n
RECURSIVE SeqsUpTo(_, _)
SeqsUpTo(S, n) ==
  IF n = 0 THEN {}
  ELSE {<<x>> : x \in S} \cup {Append(s, x) : s \in SeqsUpTo(S, n - 1), x \in S}

EntryTexts == {Text(ls) : ls \in SeqsUpTo(EntryLines, MaxLines)}

\* what a.lua and b.lua may hold
ModuleTextsA ==
  { Text(<<"require game.Workspace">>), Text(<<"require b">>), Text(<<"require main">>) }

ModuleTextsB == { Text(<<"require a">>) }

\* what a server may answer
RemoteTexts == { Text(<<EmptyLine>>), Text(<<"require /a">>), Text(<<"require a">>) }

\* what the cache may hold for a url when the run starts
CachedTexts == { Text(<<EmptyLine>>) }

Missing == [lines |-> <<>>, obf |-> <<"missing">>]

ObfuscateLevels == {0, 2}

\* an answer of httpClient.Get followed by io.ReadAll
Transport == [kind |-> "transport", status |-> 0, readOk |-> FALSE, body |-> NoText]

Response(status, readOk, body) ==
  [kind |-> "response", status |-> status, readOk |-> readOk, body |-> body]

NetOutcomes ==
  {Transport, Response(404, TRUE, NoText), Response(204, TRUE, NoText),
   Response(StatusOK, FALSE, NoText)}
    \cup {Response(StatusOK, TRUE, t) : t \in RemoteTexts}

(***************************************************************************)
(* The state                                                               *)
(***************************************************************************)
VARIABLES
  pc,             \* where rootCmd.Run stands
  flags,          \* the flags of the run that are read before Bundle
  files,          \* the file system: path -> text, or Missing
  cacheStore,     \* what the fetch cache holds: url -> text
  modules,        \* Bundler.modules
  httpModules,    \* Bundler.httpModules (the keys set to true)
  obfuscateLevel, \* Bundler.obfuscateLevel
  obfuscator,     \* Bundler.obfuscator: the level it was built for, 0 for nil
  stack,          \* the activations of processFile, innermost last
  ret,            \* what Bundle returned, [result, err], and the releaseMode it
                  \* read, FALSE if it returned before reading it
  outputFile,     \* the output file on disk, Missing until written
  trace,          \* the calls made so far that leave the process
  resolver        \* a call of the PathResolver on its own: its arguments, the
                  \* functions called so far and what they returned

vars ==
  <<pc, flags, files, cacheStore, modules, httpModules, obfuscateLevel, obfuscator,
    stack, ret, outputFile, trace, resolver>>

\* NewBundler: baseDir is filepath.Dir(entryFile)
baseDir == Dir(EntryFile)

\* the files and urls processFile can be called on
ScannedFiles == {EntryFile, PathA, PathB, Url1}

\* resolveModulePath(currentFile, modulePath) for every file processFile can
\* be called on and every literal of the table
Resolved ==
  [currentFile \in ScannedFiles |->
     [modulePath \in ModulePaths |-> resolveModulePath(baseDir, currentFile, modulePath)]]

\* the cache reports itself enabled whatever it was made with
cacheAlwaysEnabled == TRUE

\* cache.IsEnabled() of the cache made by NewCache(useCache), useCache = !noCache
cacheEnabled == ~flags.noCache

\* the text of the bundle before any release pass
EmptyOutput == [header |-> FALSE, blocks |-> EmptyMap, main |-> NoText, passes |-> <<>>]

\* generateBundle(mainContent): the header, one block per module under its
\* literal key, the entry content last
generateBundle(mods, mainContent) ==
  [header |-> TRUE, blocks |-> mods, main |-> mainContent, passes |-> <<>>]

\* a release pass over the bundle text
ApplyPass(out, pass) == [out EXCEPT !.passes = Append(@, pass)]

NoRet == [releaseMode |-> FALSE, result |-> EmptyOutput, err |-> NoErr]

\* a PathResolver with the given arguments and no function called yet
Resolver(currentFile, modulePath) ==
  [currentFile |-> currentFile, modulePath |-> modulePath, called |-> {},
   isLocal |-> FALSE, resolvedPath |-> <<>>]

\* the PathResolver is not called on its own in a run of the command
NoResolver == Resolver(<<>>, <<>>)

\* the state after NewBundler(entryFile, verbose, !noCache) succeeded
Init ==
  /\ pc = "created"
  /\ flags \in [obfuscate : ObfuscateLevels, noCache : BOOLEAN]
  /\ \E e \in EntryTexts \cup {Missing}, a \in ModuleTextsA \cup {Missing},
        b \in ModuleTextsB \cup {Missing} :
       files = (EntryFile :> e) @@ (PathA :> a) @@ (PathB :> b)
  /\ cacheStore \in {EmptyMap} \cup {(Url1 :> t) : t \in CachedTexts}
  /\ flags.noCache => cacheStore = EmptyMap
  /\ modules = EmptyMap
  /\ httpModules = {}
  /\ obfuscateLevel = 0
  /\ obfuscator = 0
  /\ stack = <<>>
  /\ ret = NoRet
  /\ outputFile = Missing
  /\ trace = <<>>
  /\ resolver = NoResolver

\* os.ReadFile(path) succeeds
FileExists(path) == path \in DOMAIN files /\ files[path] # Missing

(***************************************************************************)
(* downloadHTTP                                                            *)
(***************************************************************************)
\* what cache.Get(url) may answer: an error, or found / not found as stored
CacheGetOutcomes(url) ==
  {"err"} \cup (IF url \in DOMAIN cacheStore THEN {"found"} ELSE {"notfound"})

\* what an answer of the network is called in the history
NetRes(net) ==
  IF net.kind = "transport" THEN "transport"
  ELSE IF net.status = 200 THEN (IF net.readOk THEN "200" ELSE "200 unread")
  ELSE IF net.status = 204 THEN "204"
  ELSE "404"

\* every 2xx status is taken
statusAccepted2xx(status) == status \in 200..299

\* if resp.StatusCode != http.StatusOK { return "", ... }
statusAccepted(status) == status = StatusOK

\* the failure of cache.Set is returned
cacheWriteFatal(url) == Errorf("failed to cache", url, "cache")

\* what downloadHTTP returns as error when cache.Set fails: the failure is
\* logged when verbose and dropped
cacheWriteError(url) == NoErr

\* an error of cache.Get is returned
cacheReadFatal(url, get) ==
  IF get = "err" THEN Errorf("failed to read cache", url, "cache") ELSE NoErr

\* what downloadHTTP returns as error when cache.Get fails: err is only
\* tested together with found, a failed read goes on to the network
cacheReadError(url, get) == NoErr

\* the cached text is never used
cacheHitNever(get) == FALSE

\* if content, found, err := b.cache.Get(url); err == nil && found
cacheHit(get) == cacheEnabled /\ get = "found"

\* downloadHTTP(url) under one answer of the cache read, of the network and of
\* the cache write: the content and error it returns, the cache it leaves and
\* the calls it made
downloadHTTP(url, get, net, setOk) ==
  LET getEv == IF cacheEnabled
               THEN <<Ev("cache.Get", url, url, get # "err", get,
                         IF get = "found" THEN cacheStore[url] ELSE NoText)>>
               ELSE <<>>
      netEv == getEv \o <<Ev("http.Get", url, url,
                             net.kind # "transport" /\ net.readOk, NetRes(net), net.body)>>
      failed(msg, cause) ==
        [content |-> NoText, err |-> Errorf(msg, url, cause), cache |-> cacheStore,
         events |-> netEv]
  IN IF cacheHit(get)
     THEN [content |-> cacheStore[url], err |-> NoErr, cache |-> cacheStore,
           events |-> getEv]
     ELSE IF cacheEnabled /\ cacheReadError(url, get) # NoErr
     THEN [content |-> NoText, err |-> cacheReadError(url, get), cache |-> cacheStore,
           events |-> getEv]
     ELSE IF net.kind = "transport" THEN failed("failed to download", "transport")
     ELSE IF ~statusAccepted(net.status) THEN failed("failed to download", "status")
     ELSE IF ~net.readOk THEN failed("failed to read response from", "body")
     ELSE IF cacheEnabled
     THEN LET err == IF setOk THEN NoErr ELSE cacheWriteError(url)
          IN [content |-> IF err = NoErr THEN net.body ELSE NoText,
              err |-> err,
              cache |-> IF setOk THEN MapSet(cacheStore, url, net.body) ELSE cacheStore,
              events |-> netEv \o <<Ev("cache.Set", url, url, setOk, "", net.body)>>]
     ELSE [content |-> net.body, err |-> NoErr, cache |-> cacheStore, events |-> netEv]

\* every way downloadHTTP(url) can end in the current state
Downloads(url) ==
  {downloadHTTP(url, get, net, setOk) :
     get \in CacheGetOutcomes(url), net \in NetOutcomes, setOk \in BOOLEAN}

(***************************************************************************)
(* SetObfuscationLevel and the start of Bundle                             *)
(***************************************************************************)
\* an activation of processFile(filePath, content): the line it stands on and
\* the rule it evaluates next on that line
Frame(filePath, content) == [filePath |-> filePath, content |-> content, i |-> 1, ph |-> "http"]

\* the error is dropped and the run goes on with the next line
AbortIgnored(e) ==
  /\ stack' = IF stack = <<>> THEN stack ELSE [stack EXCEPT ![Len(stack)].i = @ + 1]
  /\ ret' = ret
  /\ pc' = "process"

\* Bundle(releaseMode) returns ("", err): every activation of processFile
\* returns err, and releaseMode is never read
Abort(e) ==
  /\ stack' = <<>>
  /\ ret' = [releaseMode |-> FALSE, result |-> EmptyOutput, err |-> e]
  /\ pc' = "returned"

\* rootCmd.Run: if obfuscateLevel > 0 (clamped to 3) b.SetObfuscationLevel(level)
SetObfuscationLevel ==
  /\ pc = "created"
  /\ flags.obfuscate > 0
  /\ LET level == IF flags.obfuscate > 3 THEN 3 ELSE flags.obfuscate
     IN /\ obfuscateLevel' = level
        /\ obfuscator' = IF level > 0 THEN level ELSE obfuscator
  /\ pc' = "bundle"
  /\ UNCHANGED <<resolver, flags, files, cacheStore, modules, httpModules, stack, ret, outputFile,
                 trace>>

BundleCalled == pc = "bundle" \/ (pc = "created" /\ flags.obfuscate <= 0)

\* Bundle: the entry file is read and processFile(entryFile, mainContent) starts
BundleReadEntry ==
  /\ BundleCalled
  /\ FileExists(EntryFile)
  /\ trace' = Append(trace, Ev("os.ReadFile", <<>>, EntryFile, TRUE, "", files[EntryFile]))
  /\ stack' = <<Frame(EntryFile, files[EntryFile])>>
  /\ pc' = "process"
  /\ UNCHANGED <<resolver, flags, files, cacheStore, modules, httpModules, obfuscateLevel,
                 obfuscator, ret, outputFile>>

\* Bundle: the entry file cannot be read
BundleReadEntryFails ==
  /\ BundleCalled
  /\ ~FileExists(EntryFile)
  /\ trace' = Append(trace, Ev("os.ReadFile", <<>>, EntryFile, FALSE, "ENOENT", NoText))
  /\ Abort(Errorf("failed to read entry file", <<>>, "ENOENT"))
  /\ UNCHANGED <<resolver, flags, files, cacheStore, modules, httpModules, obfuscateLevel,
                 obfuscator, outputFile>>

(***************************************************************************)
(* processFile, one rule of one line at a time                             *)
(***************************************************************************)
Top == stack[Len(stack)]

Running == pc = "process" /\ stack # <<>>

OnLine == Running /\ Top.i <= Len(Top.content.lines)

Line == Scanned[Top.content.lines[Top.i]]

\* the innermost activation moves to its next line
NextLine(f) == [f EXCEPT !.i = @ + 1, !.ph = "http"]

SetTop(f) == [stack EXCEPT ![Len(stack)] = f]

\* the line is at the fetch rule and the guard did not skip it
AtHttpRule == OnLine /\ Top.ph = "http" /\ ~Line.skip

\* the line is at the require rule
AtRequireRule ==
  /\ OnLine
  /\ \/ Top.ph = "req"
     \/ Top.ph = "http" /\ ~Line.skip /\ Line.url = <<>>

\* the lookup made on the wrong map
processedHttpOnly(key) == key \in httpModules

\* _, exists := b.modules[key]
processed(key) == key \in DOMAIN modules

\* funcCallHttpGetRegex matches: continue
SkipLine ==
  /\ OnLine
  /\ Top.ph = "http"
  /\ Line.skip
  /\ stack' = SetTop(NextLine(Top))
  /\ UNCHANGED <<resolver, pc, flags, files, cacheStore, modules, httpModules, obfuscateLevel,
                 obfuscator, ret, outputFile, trace>>

\* httpGetRegex matches a url that is a key of b.modules: continue
HttpAlreadyProcessed ==
  /\ AtHttpRule
  /\ Line.url # <<>>
  /\ processed(Line.url)
  /\ stack' = SetTop(NextLine(Top))
  /\ UNCHANGED <<resolver, pc, flags, files, cacheStore, modules, httpModules, obfuscateLevel,
                 obfuscator, ret, outputFile, trace>>

\* httpGetRegex matches a new url and downloadHTTP returns its content: the
\* content is stored and processFile(url, httpContent) starts
HttpDownload ==
  /\ AtHttpRule
  /\ LET url == Line.url
     IN /\ url # <<>>
        /\ ~processed(url)
        /\ \E r \in Downloads(url) :
             /\ r.err = NoErr
             /\ Len(stack) < MaxDepth
             /\ cacheStore' = r.cache
             /\ trace' = trace \o r.events
                  \o <<Ev("downloadHTTP", url, url, TRUE, "", r.content)>>
             /\ httpModules' = httpModules \cup {url}
             /\ modules' = MapSet(modules, url, r.content)
             /\ stack' = Append(SetTop([Top EXCEPT !.ph = "req"]), Frame(url, r.content))
  /\ UNCHANGED <<resolver, pc, flags, files, obfuscateLevel, obfuscator, ret, outputFile>>

\* httpGetRegex matches a new url and downloadHTTP returns an error
HttpDownloadFails ==
  /\ AtHttpRule
  /\ LET url == Line.url
     IN /\ url # <<>>
        /\ ~processed(url)
        /\ \E r \in Downloads(url) :
             /\ r.err # NoErr
             /\ cacheStore' = r.cache
             /\ trace' = trace \o r.events
                  \o <<Ev("downloadHTTP", url, url, FALSE, r.err.cause, NoText)>>
             /\ Abort(r.err)
  /\ UNCHANGED <<resolver, flags, files, modules, httpModules, obfuscateLevel, obfuscator,
                 outputFile>>

\* the literal is not classified
RequiresAny(modulePath) == modulePath # <<>>

\* modulePath != "" && b.isLocalModule(modulePath)
RequiresLocal(modulePath) == modulePath \in LocalModulePaths

\* requireRegex does not match, or its literal is empty or not a local module
RequireNotLocal ==
  /\ AtRequireRule
  /\ ~RequiresLocal(Line.modulePath)
  /\ stack' = SetTop(NextLine(Top))
  /\ UNCHANGED <<resolver, pc, flags, files, cacheStore, modules, httpModules, obfuscateLevel,
                 obfuscator, ret, outputFile, trace>>

\* a module is taken as processed once the file it resolves to has been read
requireProcessedByPath(modulePath, resolvedPath) ==
  \E i \in 1..Len(trace) :
    trace[i].op = "os.ReadFile" /\ trace[i].ok /\ trace[i].path = resolvedPath

\* _, exists := b.modules[modulePath], looked up after resolvedPath is computed
requireProcessed(modulePath, resolvedPath) == processed(modulePath)

\* requireRegex matches a local module that is a key of b.modules: continue
RequireAlreadyProcessed ==
  /\ AtRequireRule
  /\ RequiresLocal(Line.modulePath)
  /\ requireProcessed(Line.modulePath, Resolved[Top.filePath][Line.modulePath])
  /\ stack' = SetTop(NextLine(Top))
  /\ UNCHANGED <<resolver, pc, flags, files, cacheStore, modules, httpModules, obfuscateLevel,
                 obfuscator, ret, outputFile, trace>>

\* b.obfuscateLevel > 0 && b.obfuscator != nil
obfuscating == obfuscateLevel > 0 /\ obfuscator # 0

\* the module is stored as read
storedModulePlain(fileContent) == fileContent

\* the text processFile stores for a local module it has read
storedModule(fileContent) ==
  IF obfuscating THEN Obfuscate(obfuscator, fileContent) ELSE fileContent

\* the stored text is scanned
scannedStored(fileContent, moduleContent) == moduleContent

\* the text processFile scans for the dependencies of a local module it has read
scannedModule(fileContent, moduleContent) == fileContent

\* requireRegex matches a new local module whose file is read: the text is
\* stored, obfuscated if enabled, and processFile(resolvedPath, ...) starts
RequireRead ==
  /\ AtRequireRule
  /\ LET modulePath == Line.modulePath
         resolvedPath == Resolved[Top.filePath][modulePath]
     IN /\ RequiresLocal(modulePath)
        /\ ~requireProcessed(modulePath, resolvedPath)
        /\ FileExists(resolvedPath)
        /\ Len(stack) < MaxDepth
        /\ LET fileContent == files[resolvedPath]
               moduleContent == storedModule(fileContent)
           IN /\ trace' = trace
                   \o <<Ev("os.ReadFile", modulePath, resolvedPath, TRUE, "", fileContent)>>
                   \o (IF obfuscating
                       THEN <<Ev("Obfuscate", modulePath, resolvedPath, TRUE, "",
                                 fileContent)>>
                       ELSE <<>>)
              /\ modules' = MapSet(modules, modulePath, moduleContent)
              /\ stack' = Append(SetTop(NextLine(Top)),
                                 Frame(resolvedPath, scannedModule(fileContent, moduleContent)))
  /\ UNCHANGED <<resolver, pc, flags, files, cacheStore, httpModules, obfuscateLevel, obfuscator,
                 ret, outputFile>>

\* requireRegex matches a new local module whose file cannot be read
RequireReadFails ==
  /\ AtRequireRule
  /\ LET modulePath == Line.modulePath
         resolvedPath == Resolved[Top.filePath][modulePath]
     IN /\ RequiresLocal(modulePath)
        /\ ~requireProcessed(modulePath, resolvedPath)
        /\ ~FileExists(resolvedPath)
        /\ trace' = Append(trace, Ev("os.ReadFile", modulePath, resolvedPath, FALSE,
                                     "ENOENT", NoText))
        /\ Abort(Errorf("failed to read file", resolvedPath, "ENOENT"))
  /\ UNCHANGED <<resolver, flags, files, cacheStore, modules, httpModules, obfuscateLevel,
                 obfuscator, outputFile>>

\* the loop over the lines ends: return nil
ProcessFileReturn ==
  /\ Running
  /\ Top.i > Len(Top.content.lines)
  /\ stack' = Front(stack)
  /\ UNCHANGED <<resolver, pc, flags, files, cacheStore, modules, httpModules, obfuscateLevel,
                 obfuscator, ret, outputFile, trace>>

(***************************************************************************)
(* The end of Bundle                                                       *)
(***************************************************************************)
\* the entry content Bundle places in the bundle
bundledMain(mainContent) ==
  IF obfuscating THEN Obfuscate(obfuscator, mainContent) ELSE mainContent

\* the passes run whatever releaseMode is
releasePassesAlways(releaseMode) ==
  <<"removeDebugStatements", "removeComments", "minifyCode">>

\* the release passes Bundle applies to the composed bundle, in order
releasePasses(releaseMode) ==
  IF releaseMode THEN <<"removeDebugStatements", "removeComments", "minifyCode">>
  ELSE <<>>

RECURSIVE ApplyPasses(_, _)
ApplyPasses(out, passes) ==
  IF passes = <<>> THEN out ELSE ApplyPasses(ApplyPass(out, Head(passes)), Tail(passes))

\* processFile returned nil: the entry content is obfuscated if enabled, the
\* bundle is generated, the release passes run if asked for.  The argument
\* releaseMode of Bundle is read here only, and drawn here.
BundleFinish ==
  /\ pc = "process"
  /\ stack = <<>>
  /\ \E releaseMode \in BOOLEAN :
     LET mainContent == files[EntryFile]
         passes == releasePasses(releaseMode)
     IN /\ ret' = [releaseMode |-> releaseMode,
                   result |-> ApplyPasses(generateBundle(modules, bundledMain(mainContent)),
                                          passes),
                   err |-> NoErr]
        /\ trace' = trace
             \o (IF obfuscating
                 THEN <<Ev("Obfuscate", <<>>, EntryFile, TRUE, "", mainContent)>>
                 ELSE <<>>)
             \o <<Did("generateBundle")>>
             \o [i \in 1..Len(passes) |-> Did(passes[i])]
  /\ pc' = "returned"
  /\ UNCHANGED <<resolver, flags, files, cacheStore, modules, httpModules, obfuscateLevel,
                 obfuscator, stack, outputFile>>

(***************************************************************************)
(* rootCmd.Run after Bundle                                                *)
(***************************************************************************)
\* Bundle returned an error: it is printed and the process exits with 1
RunBundleFailed ==
  /\ pc = "returned"
  /\ ret.err # NoErr
  /\ pc' = "exit1"
  /\ UNCHANGED <<resolver, flags, files, cacheStore, modules, httpModules, obfuscateLevel,
                 obfuscator, stack, ret, outputFile, trace>>

\* os.WriteFile(outputFile, result) succeeds
RunWriteOutput ==
  /\ pc = "returned"
  /\ ret.err = NoErr
  /\ outputFile' = ret.result
  /\ trace' = Append(trace, Did("os.WriteFile"))
  /\ pc' = "written"
  /\ UNCHANGED <<resolver, flags, files, cacheStore, modules, httpModules, obfuscateLevel,
                 obfuscator, stack, ret>>

\* os.WriteFile fails: the process exits with 1
RunWriteOutputFails ==
  /\ pc = "returned"
  /\ ret.err = NoErr
  /\ trace' = Append(trace, Ev("os.WriteFile", <<>>, <<>>, FALSE, "", NoText))
  /\ pc' = "exit1"
  /\ UNCHANGED <<resolver, flags, files, cacheStore, modules, httpModules, obfuscateLevel,
                 obfuscator, stack, ret, outputFile>>

\* if serve { httpserver.StartServer(outputFile, port) }: the serve flag is
\* read here only, the step is taken when it is set
RunStartServer ==
  /\ pc = "written"
  /\ trace' = Append(trace, Did("StartServer"))
  /\ pc' = "serving"
  /\ UNCHANGED <<resolver, flags, files, cacheStore, modules, httpModules, obfuscateLevel,
                 obfuscator, stack, ret, outputFile>>

Next ==
  \/ SetObfuscationLevel
  \/ BundleReadEntry
  \/ BundleReadEntryFails
  \/ SkipLine
  \/ HttpAlreadyProcessed
  \/ HttpDownload
  \/ HttpDownloadFails
  \/ RequireNotLocal
  \/ RequireAlreadyProcessed
  \/ RequireRead
  \/ RequireReadFails
  \/ ProcessFileReturn
  \/ BundleFinish
  \/ RunBundleFailed
  \/ RunWriteOutput
  \/ RunWriteOutputFails
  \/ RunStartServer

Spec == Init /\ [][Next]_vars

\* the runs without a cache; the process is single-threaded and takes its next
\* step whenever it has one
FairInit == Init /\ flags.noCache

FairSpec == FairInit /\ [][Next]_vars /\ WF_vars(Next)

(***************************************************************************)
(* The PathResolver on its own: isLocalModule and resolveModulePath called *)
(* on any module path from any current file, as the unit tests call them   *)
(* on a Bundler whose baseDir is /base                                     *)
(***************************************************************************)
MaxRefLen == 5

\* the atoms module paths are made of: names, one of them reserved, the
\* extension, and the characters the resolver looks at
NameAtoms == {"localmodule", "ReplicatedStorage", "lua"}

RefAtoms == NameAtoms \cup {".", "/", ":", "'"}

\* two names in a row are one name: such a sequence spells no new string
Spelled(s) == \A i \in 1..(Len(s) - 1) : ~(s[i] \in NameAtoms /\ s[i + 1] \in NameAtoms)

\* the module paths isLocalModule and resolveModulePath are called on
ModulePathArgs == {s \in SeqsUpTo(RefAtoms, MaxRefLen) : Spelled(s)}

\* the files the calls are made from: the entry file, a file of a subdirectory
SubFile == <<"/", "base", "/", "sub", "/", "file", ".", "lua">>

CurrentFiles == {EntryFile, SubFile}

ResolverInit ==
  /\ pc = "resolver"
  /\ flags = [obfuscate |-> 0, noCache |-> TRUE]
  /\ files = EmptyMap
  /\ cacheStore = EmptyMap
  /\ modules = EmptyMap
  /\ httpModules = {}
  /\ obfuscateLevel = 0
  /\ obfuscator = 0
  /\ stack = <<>>
  /\ ret = NoRet
  /\ outputFile = Missing
  /\ trace = <<>>
  /\ \E currentFile \in CurrentFiles, modulePath \in ModulePathArgs :
       resolver = Resolver(currentFile, modulePath)

\* got := b.isLocalModule(modulePath)
CallIsLocalModule ==
  /\ pc = "resolver"
  /\ "isLocalModule" \notin resolver.called
  /\ resolver' = [resolver EXCEPT !.called = @ \cup {"isLocalModule"},
                                  !.isLocal = isLocalModule(resolver.modulePath)]
  /\ UNCHANGED <<pc, flags, files, cacheStore, modules, httpModules, obfuscateLevel,
                 obfuscator, stack, ret, outputFile, trace>>

\* got := b.resolveModulePath(currentFile, modulePath)
CallResolveModulePath ==
  /\ pc = "resolver"
  /\ "resolveModulePath" \notin resolver.called
  /\ resolver' =
       [resolver EXCEPT !.called = @ \cup {"resolveModulePath"},
                        !.resolvedPath =
                           resolveModulePath(baseDir, resolver.currentFile,
                                             resolver.modulePath)]
  /\ UNCHANGED <<pc, flags, files, cacheStore, modules, httpModules, obfuscateLevel,
                 obfuscator, stack, ret, outputFile, trace>>

ResolverNext ==
  \/ CallIsLocalModule
  \/ CallResolveModulePath

ResolverSpec == ResolverInit /\ [][ResolverNext]_vars

(***************************************************************************)
(* Reading the history                                                     *)
(***************************************************************************)
\* the calls that load a module or the entry file: a file read, a fetch
LoadOps == {"os.ReadFile", "downloadHTTP"}

\* the positions of the history where the text of literal key k is loaded
LoadsOf(k) == {i \in 1..Len(trace) : trace[i].op \in LoadOps /\ trace[i].key = k}

\* the positions of the history where op is called
CallsOf(op) == {i \in 1..Len(trace) : trace[i].op = op}

\* the literal keys loaded so far
LoadedKeys == {trace[i].key : i \in {j \in 1..Len(trace) : trace[j].op \in LoadOps}} \ {<<>>}

\* Bundle has returned without error
BundleSucceeded == pc \in {"returned", "written", "serving", "exit1"} /\ ret.err = NoErr

\* Bundle has returned an error
BundleFailed == pc \in {"returned", "exit1"} /\ ret.err # NoErr

(***************************************************************************)
(* C1: during one Bundle run every literal reference key (a require        *)
(* literal or a fetch url) is read or fetched at most once, and every key  *)
(* of the module table was stored from exactly one such load, also when    *)
(* the literal occurs on several lines or in several files.                *)
(***************************************************************************)
C1_OneLoadPerKey ==
  /\ \A k \in LoadedKeys : Cardinality(LoadsOf(k)) = 1
  /\ \A k \in DOMAIN modules : Cardinality(LoadsOf(k)) = 1

\* a.lua and b.lua require each other and the entry requires a on both of its
\* lines: "a" is referred to on three lines of two files, and is loaded
C1_Witness ==
  /\ BundleSucceeded
  /\ files[EntryFile].lines = <<"require a", "require a">>
  /\ files[PathA].lines = <<"require b">>
  /\ files[PathB].lines = <<"require a">>
  /\ LoadsOf(RefA) # {}

(***************************************************************************)
(* C2: for every set of local files, a circular dependency included (a     *)
(* and b requiring each other, or a requiring the entry file), the         *)
(* traversal started by Bundle terminates; it never comes near the depth   *)
(* at which the model stops, and after a successful run that reached the   *)
(* cycle the module table holds a and b (or a and main), each stored from  *)
(* exactly one load.                                                       *)
(***************************************************************************)
TraversalOver == pc \notin {"created", "bundle", "process"}

CycleAB == files[PathA].lines = <<"require b">> /\ files[PathB].lines = <<"require a">>

CycleAMain == files[PathA].lines = <<"require main">>

C2_CycleRecords ==
  /\ Len(stack) < MaxDepth
  /\ BundleSucceeded /\ CycleAB /\ RefA \in DOMAIN modules
       => /\ RefB \in DOMAIN modules
          /\ Cardinality(LoadsOf(RefA)) = 1
          /\ Cardinality(LoadsOf(RefB)) = 1
  /\ BundleSucceeded /\ CycleAMain /\ RefA \in DOMAIN modules
       => /\ RefMain \in DOMAIN modules
          /\ Cardinality(LoadsOf(RefA)) = 1
          /\ Cardinality(LoadsOf(RefMain)) = 1

C2_CycleTerminates == <>TraversalOver /\ []C2_CycleRecords

\* Bundle succeeded on files where a and b require each other, both stored
C2_Witness ==
  /\ BundleSucceeded
  /\ CycleAB
  /\ {RefA, RefB} \subseteq DOMAIN modules

(***************************************************************************)
(* C3: after Bundle succeeds the module table is closed under dependency:  *)
(* for the entry text and every text in the table, on every line the guard *)
(* does not skip, the literal of every require call that classifies Local  *)
(* and the url of every fetch-and-execute call is a key of the table,      *)
(* however many such calls stand on the line.                              *)
(***************************************************************************)
\* every literal of a require call on the line
RequireLiterals(line) ==
  {IF line[i + 2].t = "q" THEN line[i + 2].k ELSE IdentifierText(line[i + 2]) :
     i \in {j \in 1..Len(line) : requireAt(line, j)}}

\* every url of a fetch-and-execute call on the line
FetchUrls(line) == {line[i + 4].k : i \in {j \in 1..Len(line) : httpGetAt(line, j)}}

\* what a line depends on, for every line of the table
LineDependencies ==
  [name \in LineNames |->
     IF funcCallHttpGetMatch(Tokens(name)) THEN {}
     ELSE {m \in RequireLiterals(Tokens(name)) : isLocalModule(m)}
            \cup FetchUrls(Tokens(name))]

BundledTexts == {files[EntryFile]} \cup {modules[k] : k \in DOMAIN modules}

C3_ClosedUnderDependency ==
  BundleSucceeded =>
    \A t \in BundledTexts : \A i \in 1..Len(t.lines) :
      LineDependencies[t.lines[i]] \subseteq DOMAIN modules

(***************************************************************************)
(* C4: a file read or fetch that fails, at any depth and for the entry     *)
(* file too, is the last call of the run: no read or fetch follows it,     *)
(* Bundle returns the error with an empty bundle text, and the command     *)
(* writes no output file and starts no server.                             *)
(***************************************************************************)
FailedLoads == {i \in 1..Len(trace) : trace[i].op \in LoadOps /\ ~trace[i].ok}

C4_FailureAborts ==
  /\ \A i \in FailedLoads : i = Len(trace) /\ BundleFailed
  /\ BundleFailed =>
       /\ FailedLoads # {}
       /\ ret.result = EmptyOutput
       /\ outputFile = Missing
       /\ CallsOf("os.WriteFile") = {}
       /\ CallsOf("StartServer") = {}

\* the run ended with exit status 1 on a load that failed after a module had
\* been stored
C4_Witness ==
  /\ pc = "exit1"
  /\ FailedLoads # {}
  /\ DOMAIN modules # {}

(***************************************************************************)
(* C5: with obfuscation enabled (level > 0) every local module is stored   *)
(* as the result of exactly one Obfuscate call on the text read from disk, *)
(* and so is the entry content placed in the bundle; every remote module   *)
(* is stored exactly as fetched, with no Obfuscate call; with level 0      *)
(* there is no Obfuscate call at all.                                      *)
(***************************************************************************)
\* the Obfuscate calls made for literal key k (<<>> for the entry file)
ObfuscationsOf(k) == {i \in CallsOf("Obfuscate") : trace[i].key = k}

\* text as it is after the Obfuscate calls a local text is due
DueText(text) == IF obfuscateLevel > 0 THEN Obfuscate(obfuscateLevel, text) ELSE text

DueCalls == IF obfuscateLevel > 0 THEN 1 ELSE 0

C5_ObfuscationUniform ==
  /\ \A k \in DOMAIN modules \ httpModules :
       /\ \E i \in LoadsOf(k) : trace[i].op = "os.ReadFile" /\ modules[k] = DueText(trace[i].text)
       /\ Cardinality(ObfuscationsOf(k)) = DueCalls
  /\ \A k \in httpModules :
       /\ \E i \in LoadsOf(k) : trace[i].op = "downloadHTTP" /\ modules[k] = trace[i].text
       /\ modules[k].obf = <<>>
       /\ ObfuscationsOf(k) = {}
  /\ BundleSucceeded =>
       /\ ret.result.main = DueText(files[EntryFile])
       /\ Cardinality(ObfuscationsOf(<<>>)) = DueCalls
  /\ flags.obfuscate = 0 => CallsOf("Obfuscate") = {}
  /\ pc # "created" => obfuscateLevel = flags.obfuscate

\* a bundle made with obfuscation on that holds a local and a remote module
C5_Witness ==
  /\ BundleSucceeded
  /\ obfuscateLevel > 0
  /\ httpModules # {}
  /\ DOMAIN modules \ httpModules # {}

(***************************************************************************)
(* C6: every reference the builder extracts whose key is not yet in the    *)
(* module table is fetched through downloadHTTP and stored verbatim,       *)
(* flagged remote, when isLocalModule reports it external, and is read     *)
(* from its resolved file when isLocalModule reports it local.             *)
(*                                                                         *)
(* As amended: the rule that extracts the reference decides, not its       *)
(* classification.  The url of the fetch rule is fetched and stored        *)
(* verbatim, flagged remote, without being classified; the literal of the  *)
(* require rule is read from its resolved file when isLocalModule reports  *)
(* it local, and is ignored (no read, no fetch, no entry) when             *)
(* isLocalModule reports it external.                                      *)
(***************************************************************************)
\* the references the rules find on the lines of the table
ExtractedKeys ==
  (ModulePaths \cup {Scanned[name].url : name \in LineNames}) \ {<<>>}

\* those isLocalModule reports local
ClassifiedLocal == {k \in ExtractedKeys : isLocalModule(k)}

\* the next step evaluates the fetch rule on a url that is no key yet
ExtractsUrl == AtHttpRule /\ Line.url # <<>> /\ Line.url \notin DOMAIN modules

\* the next step evaluates the require rule on a literal that is no key yet
ExtractsLiteral ==
  AtRequireRule /\ Line.modulePath # <<>> /\ Line.modulePath \notin DOMAIN modules

\* the step fetches r and, if the fetch succeeds, stores its text under r as remote
FetchedNow(r) ==
  /\ Len(trace') > Len(trace)
  /\ LET e == trace'[Len(trace')]
     IN /\ e.op = "downloadHTTP"
        /\ e.key = r
        /\ \A i \in (Len(trace) + 1)..Len(trace') : trace'[i].op # "os.ReadFile"
        /\ e.ok =>
             /\ r \in httpModules'
             /\ r \in DOMAIN modules'
             /\ \E i \in (Len(trace) + 1)..Len(trace') :
                  /\ trace'[i].op \in {"http.Get", "cache.Get"}
                  /\ trace'[i].ok
                  /\ trace'[i].text = modules'[r]

\* the step reads the file r resolves to and, if the read succeeds, stores it under r
ReadNow(r) ==
  /\ Len(trace') > Len(trace)
  /\ LET e == trace'[Len(trace) + 1]
     IN /\ e.op = "os.ReadFile"
        /\ e.key = r
        /\ e.path = resolveModulePath(baseDir, Top.filePath, r)
        /\ \A i \in (Len(trace) + 1)..Len(trace') : trace'[i].op # "downloadHTTP"
        /\ e.ok => r \in DOMAIN modules' /\ r \notin httpModules'

\* the step leaves the reference alone
IgnoredNow == trace' = trace /\ modules' = modules /\ httpModules' = httpModules

ClassifyDecides ==
  /\ ExtractsUrl =>
       IF Line.url \in ClassifiedLocal THEN ReadNow(Line.url) ELSE FetchedNow(Line.url)
  /\ ExtractsLiteral =>
       IF Line.modulePath \in ClassifiedLocal THEN ReadNow(Line.modulePath)
       ELSE FetchedNow(Line.modulePath)

C6_ClassifyDecides == [][ClassifyDecides]_vars

RuleDecides ==
  /\ ExtractsUrl => FetchedNow(Line.url)
  /\ ExtractsLiteral =>
       IF Line.modulePath \in ClassifiedLocal THEN ReadNow(Line.modulePath) ELSE IgnoredNow

C6_RuleDecides == [][RuleDecides]_vars

\* a url that isLocalModule reports local was fetched and stored as remote, and
\* a.lua, whose only require is external, was scanned to its end
C6_Witness ==
  /\ BundleSucceeded
  /\ Url1 \in ClassifiedLocal
  /\ Url1 \in httpModules
  /\ RefA \in DOMAIN modules
  /\ files[PathA].lines = <<"require game.Workspace">>
  /\ RefGame \notin DOMAIN modules

(***************************************************************************)
(* C7: a line on which the fetch-and-execute pattern stands inside the     *)
(* argument list of another, outer call is skipped entirely: the step      *)
(* taken on it makes no fetch and no file read, adds no key to the module  *)
(* table and moves to the next line before the fetch rule and the require  *)
(* rule are looked at.                                                     *)
(***************************************************************************)
\* "(" minus ")" among the tokens a..b of the line
RECURSIVE ParenBalance(_, _, _)
ParenBalance(line, a, b) ==
  IF a > b THEN 0
  ELSE ParenBalance(line, a, b - 1)
         + (IF line[b].t = "lp" THEN 1 ELSE IF line[b].t = "rp" THEN -1 ELSE 0)

\* a fetch-and-execute call starts at token i, and a call f( opened at an
\* earlier token j is not closed before i
FetchInsideCall(line) ==
  \E i \in 1..Len(line) :
    /\ httpGetAt(line, i)
    /\ \E j \in 1..(i - 2) :
         /\ IsWord(line[j])
         /\ line[j + 1].t = "lp"
         /\ \A m \in (j + 1)..(i - 1) : ParenBalance(line, j + 1, m) >= 1

\* the lines of the table with a fetch-and-execute call inside an outer call
NestedFetchLines == {name \in LineNames : FetchInsideCall(Tokens(name))}

NestedFetchSkipped ==
  (OnLine /\ Top.ph = "http" /\ Top.content.lines[Top.i] \in NestedFetchLines)
    => /\ stack' = SetTop(NextLine(Top))
       /\ trace' = trace
       /\ modules' = modules
       /\ httpModules' = httpModules

C7_NestedFetchSkipped == [][NestedFetchSkipped]_vars

(***************************************************************************)
(* C8: with the fetch cache disabled no call of downloadHTTP, whatever the *)
(* sequence, calls cache Get or cache Set; each goes to the network.       *)
(***************************************************************************)
C8_DisabledCacheUntouched ==
  flags.noCache =>
    /\ CallsOf("cache.Get") = {}
    /\ CallsOf("cache.Set") = {}
    /\ cacheStore = EmptyMap
    /\ \A i \in CallsOf("downloadHTTP") :
         i > 1 /\ trace[i - 1].op = "http.Get" /\ trace[i - 1].key = trace[i].key

\* a fetch that succeeded with the cache disabled
C8_Witness ==
  /\ flags.noCache
  /\ \E i \in CallsOf("downloadHTTP") : trace[i].ok

(***************************************************************************)
(* C9: a downloadHTTP(url) that goes to the network returns the response   *)
(* text exactly when the transport succeeds and the status is 2xx; on a    *)
(* transport failure or any other status it returns an error naming the    *)
(* url and the cause, writes nothing to the cache and nothing is stored in *)
(* the module table for the url.                                           *)
(*                                                                         *)
(* As amended: it returns the response text exactly when the transport     *)
(* succeeds, the status is 200 and the body is read; on a transport        *)
(* failure, any other status (204 and every other 2xx included) or a body  *)
(* that cannot be read it returns an error naming the url and the cause,   *)
(* writes nothing to the cache and nothing is stored for the url.          *)
(***************************************************************************)
\* the return of the downloadHTTP call that made the network call at i
ReturnOf(i) ==
  CHOOSE d \in CallsOf("downloadHTTP") :
    d > i /\ \A e \in CallsOf("downloadHTTP") : e > i => d <= e

\* the cause downloadHTTP names for an answer of the network
CauseOf(res) ==
  IF res = "transport" THEN "transport" ELSE IF res = "200 unread" THEN "body" ELSE "status"

\* downloadHTTP returns the text of the network call at i exactly when its
\* answer is one of good; otherwise the error, no cache write, no module
FetchReturns(i, good) ==
  LET d == ReturnOf(i)
      url == trace[i].key
  IN /\ trace[d].key = url
     /\ trace[d].ok <=> trace[i].res \in good
     /\ trace[d].ok => trace[d].text = trace[i].text
     /\ ~trace[d].ok =>
          /\ d = i + 1
          /\ ret.err.subject = url
          /\ ret.err.cause = CauseOf(trace[i].res)
          /\ url \notin DOMAIN modules
          /\ url \notin httpModules

C9_TextIff2xx == \A i \in CallsOf("http.Get") : FetchReturns(i, {"200", "204"})

C9_TextIff200 == \A i \in CallsOf("http.Get") : FetchReturns(i, {"200"})

\* the run ended on a fetch that was answered 204
C9_Witness ==
  /\ pc = "exit1"
  /\ \E i \in CallsOf("http.Get") : trace[i].res = "204"

(***************************************************************************)
(* C10: a cache write that fails after a successful network fetch is not   *)
(* fatal: the step in which it fails still returns the fetched text from   *)
(* downloadHTTP, stores the module as remote and starts processFile on it, *)
(* as it does when the write succeeds; only the cache is left as it was.   *)
(***************************************************************************)
CacheWriteFailureSwallowed ==
  \A i \in (Len(trace) + 1)..Len(trace') :
    (trace'[i].op = "cache.Set" /\ ~trace'[i].ok) =>
      LET url == trace'[i].key
          body == trace'[i].text
      IN /\ trace'[i - 1].op = "http.Get" /\ trace'[i - 1].text = body
         /\ trace'[Len(trace')] = Ev("downloadHTTP", url, url, TRUE, "", body)
         /\ pc' = "process"
         /\ ret' = ret
         /\ url \in httpModules'
         /\ url \in DOMAIN modules' /\ modules'[url] = body
         /\ stack'[Len(stack')] = Frame(url, body)
         /\ cacheStore' = cacheStore

C10_CacheWriteFailureSwallowed == [][CacheWriteFailureSwallowed]_vars

\* a bundle was made in a run in which a cache write failed
C10_Witness ==
  /\ BundleSucceeded
  /\ \E i \in CallsOf("cache.Set") : ~trace[i].ok

(***************************************************************************)
(* Reading a call of the PathResolver                                      *)
(***************************************************************************)
Classified == "isLocalModule" \in resolver.called

ResolvedNow == "resolveModulePath" \in resolver.called

\* the reference holds the namespace separator "::"
HasNamespaceSeparator(ref) ==
  \E i \in 1..(Len(ref) - 1) : ref[i] = ":" /\ ref[i + 1] = ":"

HasDot(ref) == \E i \in 1..Len(ref) : ref[i] = "."

HasSlash(ref) == \E i \in 1..Len(ref) : ref[i] = "/"

\* the reference up to its first dot, all of it if it has none
LeadingDotSegment(ref) ==
  LET I == {i \in 1..Len(ref) : ref[i] = "."}
  IN IF I = {} THEN ref ELSE SubSeq(ref, 1, (CHOOSE i \in I : \A j \in I : i <= j) - 1)

\* the leading dot-segment is a reserved host-API namespace name
HasReservedLead(ref) == \E name \in externalPrefixes : LeadingDotSegment(ref) = <<name>>

EndsWithExt(ref) == Len(ref) >= 2 /\ ref[Len(ref) - 1] = "." /\ ref[Len(ref)] = "lua"

C12_BareNameLocal ==
  (Classified /\ ~HasDot(resolver.modulePath) /\ ~HasSlash(resolver.modulePath))
    => resolver.isLocal

(***************************************************************************)
(* C13: from every current file, resolveModulePath of a reference that     *)
(* starts with "/" returns baseDir joined with the reference without its   *)
(* leading "/", the extension appended if missing; the result lies under   *)
(* baseDir and is the same from every current file.                        *)
(***************************************************************************)
\* the path p names something inside the directory dir
Under(dir, p) ==
  /\ Len(p) > Len(dir) + 1
  /\ SubSeq(p, 1, Len(dir)) = dir
  /\ p[Len(dir) + 1] = "/"

\* the reference without the quote characters that wrap it
Unquoted(ref) ==
  LET I == {i \in 1..Len(ref) : ref[i] \notin {"'", "\""}}
  IN IF I = {} THEN <<>>
     ELSE SubSeq(ref, CHOOSE i \in I : \A j \in I : i <= j,
                      CHOOSE i \in I : \A j \in I : j <= i)

StartsWithSlash(ref) == ref # <<>> /\ ref[1] = "/"

\* the path with the extension appended if it does not end with it
WithExt(p) == IF EndsWithExt(p) THEN p ELSE p \o <<".", "lua">>

\* the result is the same whatever file the call is made from
SameFromEveryFile ==
  \A f \in CurrentFiles :
    resolveModulePath(baseDir, f, resolver.modulePath) = resolver.resolvedPath

AbsoluteJoined ==
  resolver.resolvedPath = WithExt(Join(baseDir, Tail(Unquoted(resolver.modulePath))))

C13_AbsoluteUnderBase ==
  (ResolvedNow /\ StartsWithSlash(resolver.modulePath))
    => /\ AbsoluteJoined
       /\ SameFromEveryFile
       /\ Under(baseDir, resolver.resolvedPath)

\* the join and the independence of the current file alone
AbsoluteFromBase ==
  (ResolvedNow /\ StartsWithSlash(resolver.modulePath))
    => AbsoluteJoined /\ SameFromEveryFile

(***************************************************************************)
(* C14: from every current file, resolveModulePath of a dot-separated      *)
(* reference with no slash and no "::", wrapped in quotes or not, returns  *)
(* baseDir/a/b/c plus the extension: every dot is a path separator and the *)
(* result is the same from every current file.                             *)
(***************************************************************************)
\* the reference, unquoted, is a dot-path
IsDotPath(ref) ==
  /\ HasDot(Unquoted(ref))
  /\ ~HasSlash(Unquoted(ref))
  /\ ~HasNamespaceSeparator(Unquoted(ref))

\* every dot of the path written as a separator
DotsAsSlashes(p) == [i \in 1..Len(p) |-> IF p[i] = "." THEN "/" ELSE p[i]]

\* a run of separators is one separator and a path does not end with one
RECURSIVE Squeeze(_)
Squeeze(p) ==
  IF p = <<>> THEN <<>>
  ELSE IF Head(p) = "/" /\ (Tail(p) = <<>> \/ Head(Tail(p)) = "/") THEN Squeeze(Tail(p))
  ELSE <<Head(p)>> \o Squeeze(Tail(p))

DotPathFromBase(ref) ==
  Squeeze(baseDir \o <<"/">> \o DotsAsSlashes(Unquoted(ref))) \o <<".", "lua">>

DirOfFile(f) ==
  LET I == {i \in 1..Len(f) : f[i] = "/"}
  IN SubSeq(f, 1, (CHOOSE i \in I : \A j \in I : j <= i) - 1)

\* name.lua for a plain name
IsNameWithExt(ref) ==
  Len(ref) = 3 /\ ref[1] \in NameAtoms /\ ref[2] = "." /\ ref[3] = "lua"

C15_ExtensionKept ==
  (ResolvedNow /\ IsNameWithExt(resolver.modulePath))
    => resolver.resolvedPath = DirOfFile(resolver.currentFile) \o <<"/">> \o resolver.modulePath

(***************************************************************************)
(* C16: for a reference that neither starts with "/" nor is a slash-free   *)
(* dotted path, resolveModulePath strips the wrapping quotes, joins the    *)
(* reference onto the directory of the current file, appends the extension *)
(* if missing and normalizes "." and ".." segments.                        *)
(***************************************************************************)
IsRelativeRef(ref) ==
  /\ ~StartsWithSlash(ref)
  /\ ~StartsWithSlash(Unquoted(ref))
  /\ ~(HasDot(Unquoted(ref)) /\ ~HasSlash(Unquoted(ref)))

\* the directories entered after the first n segments of an absolute path:
\* "" and "." stay, ".." leaves the last one, the root has no parent
RECURSIVE Walk(_, _)
Walk(segs, n) ==
  IF n = 0 THEN <<>>
  ELSE LET up == Walk(segs, n - 1)
           seg == segs[n]
       IN IF seg = <<>> \/ seg = <<".">> THEN up
          ELSE IF seg = <<".", ".">> THEN (IF up = <<>> THEN <<>> ELSE Front(up))
          ELSE Append(up, seg)

\* the absolute path p with its "." and ".." segments normalized
Normalized(p) ==
  LET segs == Split(p, "/")
      at == Walk(segs, Len(segs))
  IN IF at = <<>> THEN <<"/">> ELSE Flatten([i \in 1..Len(at) |-> <<"/">> \o at[i]])

RelativeResolved(currentFile, ref) ==
  Normalized(WithExt(Normalized(DirOfFile(currentFile) \o <<"/">> \o Unquoted(ref))))

C16_RelativeToCurrentFile ==
  (ResolvedNow /\ IsRelativeRef(resolver.modulePath))
    => resolver.resolvedPath = RelativeResolved(resolver.currentFile, resolver.modulePath)

\* ../localmodule behind a quote, resolved from the file of the subdirectory
C16_Witness ==
  /\ ResolvedNow
  /\ resolver.currentFile = SubFile
  /\ resolver.modulePath = <<"'", ".", ".", "/", "localmodule">>
  /\ resolver.resolvedPath = <<"/", "base", "/", "localmodule", ".", "lua">>

(***************************************************************************)
(* C17: Bundle runs the release passes only when release mode is asked     *)
(* for, only after the whole bundle text (the module blocks and the entry  *)
(* content) is composed, and always in the order removeDebugStatements,    *)
(* removeComments, minifyCode; with releaseMode false no pass runs.        *)
(***************************************************************************)
PassNames == {"removeDebugStatements", "removeComments", "minifyCode"}

PassOrder == <<"removeDebugStatements", "removeComments", "minifyCode">>

PassCalls == {i \in 1..Len(trace) : trace[i].op \in PassNames}

\* the loads and obfuscations of the run: what composes the bundle text
ComposingCalls == {i \in 1..Len(trace) : trace[i].op \in LoadOps \cup {"Obfuscate"}}

C17_ReleasePassesOrdered ==
  /\ PassCalls # {} => BundleSucceeded /\ ret.releaseMode
  /\ (BundleSucceeded /\ ~ret.releaseMode) => PassCalls = {} /\ ret.result.passes = <<>>
  /\ (BundleSucceeded /\ ret.releaseMode) =>
       /\ ret.result.passes = PassOrder
       /\ ret.result.header
       /\ ret.result.blocks = modules
       /\ ret.result.main = DueText(files[EntryFile])
       /\ \E g \in CallsOf("generateBundle") :
            /\ CallsOf("generateBundle") = {g}
            /\ \A i \in ComposingCalls : i < g
            /\ PassCalls = (g + 1)..(g + 3)
            /\ \A n \in 1..3 : trace[g + n].op = PassOrder[n]

\* a release bundle with a module block
C17_Witness ==
  /\ BundleSucceeded
  /\ ret.releaseMode
  /\ DOMAIN modules # {}
  /\ PassCalls # {}

(***************************************************************************)
(* C18: on a line the guard does not skip and on which both the fetch rule *)
(* and the require rule match, the step of the fetch rule, whatever its    *)
(* outcome short of an error (the url already stored included), leaves the *)
(* require rule of that line still to be evaluated.                        *)
(***************************************************************************)
BothRulesMatch ==
  /\ OnLine
  /\ Top.ph = "http"
  /\ ~Line.skip
  /\ Line.url # <<>>
  /\ Line.modulePath # <<>>

\* the activation stays on its line, at the require rule
RequireRuleDue ==
  /\ Len(stack') >= Len(stack)
  /\ stack'[Len(stack)].i = Top.i
  /\ stack'[Len(stack)].ph = "req"

RulesIndependent == (BothRulesMatch /\ pc' = "process") => RequireRuleDue

C18_RulesIndependent == [][RulesIndependent]_vars

(***************************************************************************)
(* C19: after it stores a local module, processFile looks for the module's *)
(* own dependencies in the text it stored in the module table (the         *)
(* obfuscated text when obfuscation is on), not in the text read from      *)
(* disk.                                                                   *)
(*                                                                         *)
(* As amended: it looks for them in the text read from disk, also when     *)
(* obfuscation is on and the stored text is the obfuscated one.            *)
(***************************************************************************)
\* the positions of the local module reads of this step
ModuleReadsNow ==
  {i \in (Len(trace) + 1)..Len(trace') :
     trace'[i].op = "os.ReadFile" /\ trace'[i].ok /\ trace'[i].key # <<>>}

\* the activation this step starts
Started == stack'[Len(stack')]

ScansStored ==
  \A i \in ModuleReadsNow :
    /\ Len(stack') = Len(stack) + 1
    /\ Started.filePath = trace'[i].path
    /\ Started.content = modules'[trace'[i].key]

ScansOriginal ==
  \A i \in ModuleReadsNow :
    /\ Len(stack') = Len(stack) + 1
    /\ Started.filePath = trace'[i].path
    /\ Started.i = 1
    /\ Started.content = files[trace'[i].path]
    /\ modules'[trace'[i].key] = DueText(files[trace'[i].path])

C19_ScansStored == [][ScansStored]_vars

C19_ScansOriginal == [][ScansOriginal]_vars

\* with obfuscation on, a.lua is being scanned and its stored text differs
C19_Witness ==
  /\ obfuscateLevel > 0
  /\ RefA \in DOMAIN modules
  /\ modules[RefA] # files[PathA]
  /\ \E n \in 1..Len(stack) : stack[n].filePath = PathA /\ stack[n].content = files[PathA]

(***************************************************************************)
(* C20: with the cache enabled, a downloadHTTP(url) whose cache Get finds  *)
(* the key returns the cached text with no network GET and no Set; on a    *)
(* miss it makes exactly one network GET and, when that succeeds, the text *)
(* is in the cache under the url when downloadHTTP returns, so that a      *)
(* later fetch of the url is served from the cache.                        *)
(*                                                                         *)
(* As amended: on a miss it makes exactly one network GET and, when that   *)
(* succeeds, calls Set with the text under the url before it returns; the  *)
(* text is in the cache afterwards when that Set succeeds, and the cache   *)
(* is as it was when that Set fails.                                       *)
(***************************************************************************)
\* the call whose cache read is at i found the key: it returns the cached text
HitServed(i) ==
  /\ i + 1 <= Len(trace)
  /\ trace[i + 1] = Ev("downloadHTTP", trace[i].key, trace[i].key, TRUE, "", trace[i].text)

\* the call whose cache read is at i did not find the key: one network GET,
\* and on its success a Set of the body before the return
MissFetched(i) ==
  LET url == trace[i].key
  IN /\ i + 2 <= Len(trace)
     /\ trace[i + 1].op = "http.Get" /\ trace[i + 1].key = url
     /\ trace[i + 2].op # "http.Get"
     /\ trace[i + 1].res = "200" =>
          /\ i + 3 <= Len(trace)
          /\ trace[i + 2].op = "cache.Set"
          /\ trace[i + 2].key = url
          /\ trace[i + 2].text = trace[i + 1].text
          /\ trace[i + 3] = Ev("downloadHTTP", url, url, TRUE, "", trace[i + 1].text)

\* the text fetched by the call whose cache read is at i is in the cache
Cached(i) == trace[i].key \in DOMAIN cacheStore /\ cacheStore[trace[i].key] = trace[i + 1].text

\* every call that read the cache; whenSet: the text is looked for in the
\* cache only after a Set that succeeded
CacheCalls(whenSet) ==
  \A i \in CallsOf("cache.Get") :
    /\ cacheEnabled
    /\ trace[i].res = "found" => HitServed(i)
    /\ trace[i].res = "notfound" =>
         /\ MissFetched(i)
         /\ trace[i + 1].res = "200" =>
              IF whenSet THEN trace[i + 2].ok <=> Cached(i) ELSE Cached(i)

C20_FetchedIsCached == CacheCalls(FALSE)

C20_FetchedIsSet == CacheCalls(TRUE)

\* a bundle made after a miss whose fetched text was written to the cache
C20_Witness ==
  /\ BundleSucceeded
  /\ \E i \in CallsOf("cache.Get") :
       trace[i].res = "notfound" /\ trace[i + 1].res = "200" /\ trace[i + 2].ok /\ Cached(i)

\* a bundle made from a text served by the cache
HitWitness ==
  /\ BundleSucceeded
  /\ \E i \in CallsOf("cache.Get") : trace[i].res = "found" /\ HitServed(i)

(***************************************************************************)
(* C21: a module counts as processed by the literal spelling of its        *)
(* reference, not by the file it resolves to: a local literal that is no   *)
(* key yet causes its own file read and its own entry also when the file   *)
(* was already read under another spelling, and a literal that is a key    *)
(* is skipped also when it resolves to another file from the directory of  *)
(* the current file.                                                       *)
(***************************************************************************)
\* the reads of module files that succeeded, by position in the history
ModuleReads ==
  {i \in CallsOf("os.ReadFile") : trace[i].ok /\ trace[i].key # <<>>}

\* the next step evaluates the require rule on a local literal
ExtractsLocal == AtRequireRule /\ Line.modulePath \in ClassifiedLocal

\* the step reads the file the literal resolves to from the current file and,
\* if the read succeeds, stores the text under the literal
ReadUnderLiteral ==
  LET k == Line.modulePath
      e == trace'[Len(trace) + 1]
  IN /\ Len(trace') > Len(trace)
     /\ e.op = "os.ReadFile"
     /\ e.key = k
     /\ e.path = resolveModulePath(baseDir, Top.filePath, k)
     /\ e.ok => k \in DOMAIN modules' /\ DOMAIN modules' = DOMAIN modules \cup {k}
     /\ ~e.ok => modules' = modules

\* the step leaves the line and reads nothing
SkippedAsKey ==
  /\ trace' = trace
  /\ modules' = modules
  /\ stack' = SetTop(NextLine(Top))

DedupByLiteral ==
  ExtractsLocal =>
    IF Line.modulePath \in DOMAIN modules THEN SkippedAsKey ELSE ReadUnderLiteral

C21_DedupByLiteral == [][DedupByLiteral]_vars

\* one file read twice, stored under two spellings
C21_Witness ==
  \E i, j \in ModuleReads :
    /\ i # j
    /\ trace[i].path = trace[j].path
    /\ trace[i].key # trace[j].key
    /\ {trace[i].key, trace[j].key} \subseteq DOMAIN modules

\* a literal that is a key is about to be skipped in a file from whose
\* directory it resolves to another file than the one read for it
SkipsOtherFile ==
  /\ ExtractsLocal
  /\ Line.modulePath \in DOMAIN modules
  /\ \E i \in ModuleReads :
       /\ trace[i].key = Line.modulePath
       /\ trace[i].path # resolveModulePath(baseDir, Top.filePath, Line.modulePath)

(***************************************************************************)
(* C22: isLocalModule answers for every reference and has no residual      *)
(* case: it returns true exactly when the reference holds no "::" and its  *)
(* leading dot-segment is no reserved namespace name; a reference that     *)
(* passes the two external checks is never classified External.            *)
(***************************************************************************)
PassesExternalChecks(ref) == ~HasNamespaceSeparator(ref) /\ ~HasReservedLead(ref)

ModuleLoads ==
  {i \in 1..Len(trace) : trace[i].op \in LoadOps /\ trace[i].ok /\ trace[i].key # <<>>}

\* the text stored under k is the text of a load of k that succeeded
StoredFromLoad(k) ==
  \E i \in ModuleLoads :
    /\ trace[i].key = k
    /\ IF k \in httpModules
       THEN trace[i].op = "downloadHTTP" /\ modules[k] = trace[i].text
       ELSE trace[i].op = "os.ReadFile" /\ modules[k] = DueText(trace[i].text)

C23_TableHoldsLoadedTexts ==
  /\ \A k \in DOMAIN modules : StoredFromLoad(k)
  /\ httpModules \subseteq DOMAIN modules
  /\ \A i \in FailedLoads : trace[i].key \notin DOMAIN modules
  /\ \A i \in ModuleLoads : trace[i].key \in DOMAIN modules

\* a run that failed on a module after it had stored another
C23_Witness ==
  /\ BundleFailed
  /\ DOMAIN modules # {}
  /\ \E i \in FailedLoads : trace[i].key # <<>>

(***************************************************************************)
(* C24: with the cache enabled, a cache Get that returns an error is taken *)
(* as a miss: downloadHTTP goes on to the network GET, and whether it      *)
(* returns the text or an error is decided by the network alone; the run   *)
(* is never aborted because of the cache read.                             *)
(***************************************************************************)
\* the cache reads that returned an error, by position in the history
CacheReadErrors == {i \in CallsOf("cache.Get") : trace[i].res = "err"}

\* the call whose failed cache read is at i went on as after a miss
ReadErrorIsMiss(i) ==
  LET url == trace[i].key
      d == ReturnOf(i)
  IN /\ cacheEnabled
     /\ ~trace[i].ok
     /\ MissFetched(i)
     /\ trace[d].key = url
     /\ trace[d].ok <=> trace[i + 1].res = "200"
     /\ trace[d].ok => url \in DOMAIN modules /\ modules[url] = trace[i + 1].text
     /\ ~trace[d].ok => ret.err.subject = url /\ ret.err.cause = CauseOf(trace[i + 1].res)

C24_CacheReadErrorIsMiss == \A i \in CacheReadErrors : ReadErrorIsMiss(i)

\* a bundle made in a run in which a cache read failed
C24_Witness ==
  /\ BundleSucceeded
  /\ \E i \in CacheReadErrors : trace[i + 1].res = "200"

====
